---------------------------- MODULE Spec2Model ----------------------------
(***************************************************************************)
(* A model of the splittea bot (src/src/bot.rs, src/src/controller.rs,     *)
(* src/src/db.rs): the dialogue state machine kept per chat, the tables    *)
(* of the store and the debt settlement computed when the expenses of a    *)
(* group are listed.                                                       *)
(*                                                                         *)
(* Conventions.                                                            *)
(*  - An Option<T> is a sequence of length 0 (None) or 1 (Some(x)).        *)
(*  - A text is a sequence of one-character strings, so that parsing is    *)
(*    done character by character, as the code does it.                    *)
(*  - A Decimal is an integer number of units of 10^-FracDigits.  The      *)
(*    rust_decimal type keeps a 96 bit mantissa (28 fraction digits for a  *)
(*    value near 1); TLC's integers have 32 bits, so the model keeps       *)
(*    FracDigits fraction digits.  Sums and differences are exact, a       *)
(*    quotient is rounded to the nearest unit, as rust_decimal rounds it   *)
(*    to the nearest value its mantissa can hold.  The texts and amounts   *)
(*    the model draws have at most one fraction digit and at most three    *)
(*    handles spend, so a quotient is inexact in the model exactly when it *)
(*    is inexact in rust_decimal (a division by 3 of a sum that 3 does     *)
(*    not divide).                                                         *)
(*  - bot.send_message is taken to succeed: the transport is reliable.     *)
(*  - A store call may fail (the store is unreachable, a constraint is     *)
(*    violated): the set of failing calls of one update is an input.       *)
(***************************************************************************)
EXTENDS Integers, Sequences, FiniteSets, TLC

(***************************************************************************)
(* Bounds of the model.                                                    *)
(***************************************************************************)
\* group rows the store may hold
MaxGroups == 1
\* expense rows recorded through the dialogue
MaxExpenses == 1
\* expense rows of the group whose expenses SpecSettle lists
MaxSettleExpenses == 3
\* fraction digits a Decimal keeps
FracDigits == 2

(***************************************************************************)
(* Options.                                                                *)
(***************************************************************************)
None == <<>>
Some(x) == <<x>>
IsSome(o) == Len(o) = 1
Unwrap(o) == o[1]

(***************************************************************************)
(* Texts and their parsing.                                                *)
(***************************************************************************)
Digits == {"0", "1", "2", "3", "4", "5", "6", "7", "8", "9"}

DigitVal(ch) ==
    CASE ch = "0" -> 0 [] ch = "1" -> 1 [] ch = "2" -> 2 [] ch = "3" -> 3
      [] ch = "4" -> 4 [] ch = "5" -> 5 [] ch = "6" -> 6 [] ch = "7" -> 7
      [] ch = "8" -> 8 [] ch = "9" -> 9

RECURSIVE Pow10(_)
Pow10(n) == IF n = 0 THEN 1 ELSE 10 * Pow10(n - 1)

\* one unit of money, as a Decimal of the model
One == Pow10(FracDigits)

AllDigits(s) == \A i \in 1..Len(s) : s[i] \in Digits

\* the value of a text of digits
RECURSIVE DigitsVal(_)
DigitsVal(s) ==
    IF s = <<>> THEN 0
    ELSE 10 * DigitsVal(SubSeq(s, 1, Len(s) - 1)) + DigitVal(s[Len(s)])

\* the text without its sign, and the sign
Unsigned(s) == IF s # <<>> /\ s[1] \in {"+", "-"} THEN Tail(s) ELSE s
Sign(s) == IF s # <<>> /\ s[1] = "-" THEN -1 ELSE 1

\* str::parse::<i64>: an optional sign and at least one digit, nothing else.
\* (A text long enough to overflow an i64 is not among the texts drawn.)
ParseI64(s) ==
    LET d == Unsigned(s)
    IN  IF d # <<>> /\ AllDigits(d) THEN Some(Sign(s) * DigitsVal(d)) ELSE None

\* the place of the first "." of a text, 0 when it has none
RECURSIVE DotAt(_, _)
DotAt(s, i) ==
    IF i > Len(s) THEN 0 ELSE IF s[i] = "." THEN i ELSE DotAt(s, i + 1)

\* str::parse::<Decimal>: an optional sign, digits, and at most one "."
\* followed by digits.  (Texts with more than FracDigits fraction digits,
\* with "_" between digits or with no digit on one side of the "." are not
\* among the texts drawn.)
ParseDecimal(s) ==
    LET d == Unsigned(s)
        dot == DotAt(d, 1)
        int == IF dot = 0 THEN d ELSE SubSeq(d, 1, dot - 1)
        frac == IF dot = 0 THEN <<>> ELSE SubSeq(d, dot + 1, Len(d))
    IN  IF /\ int # <<>>
           /\ AllDigits(int)
           /\ AllDigits(frac)
           /\ (dot # 0 => frac # <<>>)
           /\ Len(frac) <= FracDigits
        THEN Some(Sign(s) * (DigitsVal(int) * One
                             + DigitsVal(frac) * Pow10(FracDigits - Len(frac))))
        ELSE None

(***************************************************************************)
(* Decimal arithmetic (rust_decimal), on numbers of units.                 *)
(***************************************************************************)
Abs(x) == IF x < 0 THEN -x ELSE x
Min(x, y) == IF x <= y THEN x ELSE y

\* Decimal / Decimal::from(n) for a dividend >= 0 and n > 0: the quotient
\* rounded to the nearest unit (a tie, which the amounts drawn never
\* produce, to the even one).
\* (a bug: the quotient cut off, not rounded)
DecDivTruncated(a, n) == a \div n

DecDiv(a, n) ==
    LET q == a \div n
        r == a % n
    IN  IF 2 * r > n \/ (2 * r = n /\ q % 2 = 1) THEN q + 1 ELSE q

(***************************************************************************)
(* The settlement of receive_group_id_for_expenses_list.  Its input is the *)
(* expense rows of the group (records with username and amount) and the    *)
(* order in which the HashMap user_spent is iterated, which std leaves     *)
(* unspecified (a randomly seeded hasher): a sequence holding each key     *)
(* once.                                                                   *)
(***************************************************************************)
Range(s) == {s[i] : i \in 1..Len(s)}

\* the sequences that hold each element of S once
Orders(S) ==
    {s \in [1..Cardinality(S) -> S] : \A i, j \in 1..Cardinality(S) : s[i] = s[j] => i = j}

RECURSIVE SumSeq(_)
SumSeq(s) == IF s = <<>> THEN 0 ELSE s[1] + SumSeq(Tail(s))

\* the keys of user_spent
Spenders(exps) == {exps[i].username : i \in 1..Len(exps)}

\* (a bug: the entry overwritten by each row of the handle, not added to)
RECURSIVE SpentByLastRow(_, _)
SpentByLastRow(exps, u) ==
    IF exps = <<>> THEN 0
    ELSE IF exps[Len(exps)].username = u THEN exps[Len(exps)].amount
    ELSE SpentByLastRow(SubSeq(exps, 1, Len(exps) - 1), u)

\* user_spent: *entry(username).or_default() += amount, over the rows
RECURSIVE SpentBy(_, _)
SpentBy(exps, u) ==
    IF exps = <<>> THEN 0
    ELSE (IF exps[1].username = u THEN exps[1].amount ELSE 0) + SpentBy(Tail(exps), u)

\* (a bug: the sum divided by the number of rows, not of spenders)
MeanPerRow(exps) ==
    DecDiv(SumSeq([i \in 1..Len(exps) |-> exps[i].amount]), Len(exps))

\* sum / Decimal::from(user_spent.len())
Mean(exps) ==
    DecDiv(SumSeq([i \in 1..Len(exps) |-> exps[i].amount]), Cardinality(Spenders(exps)))

\* user_debt: (username, spent - mean), in the iteration order of the map
UserDebt(exps, order) ==
    [i \in 1..Len(order) |->
        [username |-> order[i], debt |-> SpentBy(exps, order[i]) - Mean(exps)]]

\* (a bug: the signed debt kept)
AbsDebtSigned(e) == e

\* UserDebt { username, debt: debt.abs() }
AbsDebt(e) == [username |-> e.username, debt |-> Abs(e.debt)]

\* debt.cmp(&Decimal::ZERO) = Greater: pushed to creditors, with debt.abs()
IsCreditor(e) == e.debt > 0
\* (a bug: a debt of zero pushed to debitors too)
IsDebitorOrSettled(e) == e.debt <= 0

\* debt.cmp(&Decimal::ZERO) = Less: pushed to debitors, with debt.abs()
IsDebitor(e) == e.debt < 0

\* for (username, debt) in user_debt: the entries pushed to one of the two
\* lists, in the order of user_debt
Creditors(ud) ==
    LET kept == SelectSeq(ud, IsCreditor)
    IN  [i \in 1..Len(kept) |-> AbsDebt(kept[i])]

Debitors(ud) ==
    LET kept == SelectSeq(ud, IsDebitor)
    IN  [i \in 1..Len(kept) |-> AbsDebt(kept[i])]

\* (a bug: a.debt.cmp(&b.debt), smaller debts first)
RECURSIVE InsertAscending(_, _)
InsertAscending(sorted, e) ==
    IF sorted = <<>> THEN <<e>>
    ELSE IF sorted[Len(sorted)].debt <= e.debt THEN Append(sorted, e)
    ELSE Append(InsertAscending(SubSeq(sorted, 1, Len(sorted) - 1), e),
                sorted[Len(sorted)])

\* sort_by(|a, b| b.debt.cmp(&a.debt)): a stable sort, larger debts first;
\* elements of equal debt keep the order they had
RECURSIVE Insert(_, _)
Insert(sorted, e) ==
    IF sorted = <<>> THEN <<e>>
    ELSE IF sorted[Len(sorted)].debt >= e.debt THEN Append(sorted, e)
    ELSE Append(Insert(SubSeq(sorted, 1, Len(sorted) - 1), e), sorted[Len(sorted)])

RECURSIVE SortByDebtDesc(_)
SortByDebtDesc(s) ==
    IF s = <<>> THEN <<>>
    ELSE Insert(SortByDebtDesc(SubSeq(s, 1, Len(s) - 1)), s[Len(s)])

\* (a bug: a transfer capped at 10, the rest left to the next iteration)
MatchStepByInstalments(m) ==
    LET debtor == m.debitors[m.di]
        creditor == m.creditors[m.ci]
        transfer_amount == Min(Min(debtor.debt, creditor.debt), 10 * One)
        debitors == [m.debitors EXCEPT ![m.di].debt = @ - transfer_amount]
        creditors == [m.creditors EXCEPT ![m.ci].debt = @ - transfer_amount]
    IN  [debitors |-> debitors,
         creditors |-> creditors,
         transactions |-> Append(m.transactions,
                                 [debtor |-> debtor.username,
                                  creditor |-> creditor.username,
                                  amount |-> transfer_amount]),
         di |-> IF debitors[m.di].debt = 0 THEN m.di + 1 ELSE m.di,
         ci |-> IF creditors[m.ci].debt = 0 THEN m.ci + 1 ELSE m.ci]

\* One iteration of the matching loop, on its variables.  Indices are
\* 1-based here (debitor_index = 0 in the code is di = 1).
MatchStep(m) ==
    LET debtor == m.debitors[m.di]
        creditor == m.creditors[m.ci]
        transfer_amount == Min(debtor.debt, creditor.debt)
        debitors == [m.debitors EXCEPT ![m.di].debt = @ - transfer_amount]
        creditors == [m.creditors EXCEPT ![m.ci].debt = @ - transfer_amount]
    IN  [debitors |-> debitors,
         creditors |-> creditors,
         transactions |-> Append(m.transactions,
                                 [debtor |-> debtor.username,
                                  creditor |-> creditor.username,
                                  amount |-> transfer_amount]),
         di |-> IF debitors[m.di].debt = 0 THEN m.di + 1 ELSE m.di,
         ci |-> IF creditors[m.ci].debt = 0 THEN m.ci + 1 ELSE m.ci]

\* while debitor_index < debitors.len() && creditor_index < creditors.len()
RECURSIVE MatchLoop(_)
MatchLoop(m) ==
    IF m.di <= Len(m.debitors) /\ m.ci <= Len(m.creditors)
    THEN MatchLoop(MatchStep(m))
    ELSE m

\* (a bug: the two lists taken for each other in the matching loop)
SettleListsSwapped(exps, order) ==
    LET user_debt == UserDebt(exps, order)
        creditors == SortByDebtDesc(Creditors(user_debt))
        debitors == SortByDebtDesc(Debitors(user_debt))
        end == MatchLoop([debitors |-> creditors, creditors |-> debitors,
                          transactions |-> <<>>, di |-> 1, ci |-> 1])
    IN  [order |-> order,
         mean |-> Mean(exps),
         user_debt |-> user_debt,
         debt_sum |-> SumSeq([i \in 1..Len(user_debt) |-> user_debt[i].debt]),
         creditors |-> creditors,
         debitors |-> debitors,
         transactions |-> end.transactions]

\* What the settlement computes for the rows exps when user_spent is
\* iterated in the given order.
Settle(exps, order) ==
    LET user_debt == UserDebt(exps, order)
        creditors == SortByDebtDesc(Creditors(user_debt))
        debitors == SortByDebtDesc(Debitors(user_debt))
        end == MatchLoop([debitors |-> debitors, creditors |-> creditors,
                          transactions |-> <<>>, di |-> 1, ci |-> 1])
    IN  [order |-> order,
         mean |-> Mean(exps),
         user_debt |-> user_debt,
         \* the sum the debug_assert! compares with zero
         debt_sum |-> SumSeq([i \in 1..Len(user_debt) |-> user_debt[i].debt]),
         creditors |-> creditors,
         debitors |-> debitors,
         transactions |-> end.transactions]

(***************************************************************************)
(* The dialogue states (enum ChatState) and the commands (enum Command).   *)
(***************************************************************************)
Start == [tag |-> "Start"]
ReceiveGroupIdForExpense == [tag |-> "ReceiveGroupIdForExpense"]
RecieveAmountSpent(g) == [tag |-> "RecieveAmountSpent", group_id |-> g]
ReceiveNote(g, a) == [tag |-> "ReceiveNote", group_id |-> g, amount |-> a]
ReceiveGroupName == [tag |-> "ReceiveGroupName"]
ReceiveGroupIdForAddMember == [tag |-> "ReceiveGroupIdForAddMember"]
ReceiveUsername(g) == [tag |-> "ReceiveUsername", group_id |-> g]
ReceiveGroupIdForExpensesList == [tag |-> "ReceiveGroupIdForExpensesList"]

\* the texts of the commands, under rename_rule = "lowercase"
TextHelp == <<"/", "h", "e", "l", "p">>
TextCreateGroup == <<"/", "c", "r", "e", "a", "t", "e", "g", "r", "o", "u", "p">>
TextAddMemberToGroup ==
    <<"/", "a", "d", "d", "m", "e", "m", "b", "e", "r", "t", "o", "g", "r", "o", "u", "p">>
TextAddExpense == <<"/", "a", "d", "d", "e", "x", "p", "e", "n", "s", "e">>
TextListExpensesInGroup ==
    <<"/", "l", "i", "s", "t", "e", "x", "p", "e", "n", "s", "e", "s", "i", "n",
      "g", "r", "o", "u", "p">>
TextListMyGroups == <<"/", "l", "i", "s", "t", "m", "y", "g", "r", "o", "u", "p", "s">>
TextCancel == <<"/", "c", "a", "n", "c", "e", "l">>

\* filter_command::<Command, _>: the command a message's text parses to
ParseCommand(text) ==
    IF ~IsSome(text) THEN None
    ELSE CASE Unwrap(text) = TextHelp -> Some("Help")
           [] Unwrap(text) = TextCreateGroup -> Some("CreateGroup")
           [] Unwrap(text) = TextAddMemberToGroup -> Some("AddMemberToGroup")
           [] Unwrap(text) = TextAddExpense -> Some("AddExpense")
           [] Unwrap(text) = TextListExpensesInGroup -> Some("ListExpensesInGroup")
           [] Unwrap(text) = TextListMyGroups -> Some("ListMyGroups")
           [] Unwrap(text) = TextCancel -> Some("Cancel")
           [] OTHER -> None

\* (a bug: the branch of Cancel outside Start left out)
EndpointCancelInStartOnly(st, msg) ==
    LET cmd == ParseCommand(msg.text)
    IN  IF IsSome(cmd) /\ st.tag = "Start"
        THEN CASE Unwrap(cmd) = "Help" -> "help"
               [] Unwrap(cmd) = "ListMyGroups" -> "list_my_groups"
               [] Unwrap(cmd) = "CreateGroup" -> "create_group"
               [] Unwrap(cmd) = "AddMemberToGroup" -> "add_member_to_group"
               [] Unwrap(cmd) = "AddExpense" -> "add_expense"
               [] Unwrap(cmd) = "ListExpensesInGroup" -> "list_expenses_in_group"
               [] Unwrap(cmd) = "Cancel" -> "cancel"
        ELSE CASE st.tag = "ReceiveGroupName" -> "receive_group_name"
               [] st.tag = "ReceiveGroupIdForAddMember" -> "receive_group_id_for_add_member"
               [] st.tag = "ReceiveUsername" -> "receive_user_name"
               [] st.tag = "ReceiveGroupIdForExpense" -> "receive_group_id_for_expense"
               [] st.tag = "RecieveAmountSpent" -> "receive_amount_spent"
               [] st.tag = "ReceiveNote" -> "receive_note"
               [] st.tag = "ReceiveGroupIdForExpensesList" ->
                      "receive_group_id_for_expenses_list"
               [] OTHER -> "invalid_state"

\* The endpoint the handler tree of run() gives a message in state st: the
\* command branch first (every command in Start, Cancel alone in any other
\* state), then the branch of the state, then invalid_state.
Endpoint(st, msg) ==
    LET cmd == ParseCommand(msg.text)
    IN  IF IsSome(cmd) /\ st.tag = "Start"
        THEN CASE Unwrap(cmd) = "Help" -> "help"
               [] Unwrap(cmd) = "ListMyGroups" -> "list_my_groups"
               [] Unwrap(cmd) = "CreateGroup" -> "create_group"
               [] Unwrap(cmd) = "AddMemberToGroup" -> "add_member_to_group"
               [] Unwrap(cmd) = "AddExpense" -> "add_expense"
               [] Unwrap(cmd) = "ListExpensesInGroup" -> "list_expenses_in_group"
               [] Unwrap(cmd) = "Cancel" -> "cancel"
        ELSE IF cmd = Some("Cancel") THEN "cancel"
        ELSE CASE st.tag = "ReceiveGroupName" -> "receive_group_name"
               [] st.tag = "ReceiveGroupIdForAddMember" -> "receive_group_id_for_add_member"
               [] st.tag = "ReceiveUsername" -> "receive_user_name"
               [] st.tag = "ReceiveGroupIdForExpense" -> "receive_group_id_for_expense"
               [] st.tag = "RecieveAmountSpent" -> "receive_amount_spent"
               [] st.tag = "ReceiveNote" -> "receive_note"
               [] st.tag = "ReceiveGroupIdForExpensesList" ->
                      "receive_group_id_for_expenses_list"
               [] OTHER -> "invalid_state"

(***************************************************************************)
(* The store (struct Database): the tables group, user, user_group and     *)
(* expense.  A group or expense row gets the next id of its table.  The    *)
(* calls of a handler are numbered as it makes them; the calls whose       *)
(* number is in the set f fail.                                            *)
(***************************************************************************)
EmptyDb == [group |-> <<>>, user |-> {}, user_group |-> {}, expense |-> <<>>]

\* Database::insert_group
insert_group(db, name) ==
    [db EXCEPT !.group = Append(@, [id |-> Len(@) + 1, name |-> name])]

\* Database::get_group_by_id
get_group_by_id(db, group_id) ==
    LET found == SelectSeq(db.group, LAMBDA g : g.id = group_id)
    IN  IF found = <<>> THEN None ELSE Some(found[1])

\* Database::get_user_groups: the groups whose id a user_group row of the
\* user holds
get_user_groups(db, username) ==
    SelectSeq(db.group,
              LAMBDA g : [username |-> username, group_id |-> g.id] \in db.user_group)

\* Database::get_expenses_in_group
get_expenses_in_group(db, group_id) ==
    SelectSeq(db.expense, LAMBDA e : e.group_id = group_id)

\* Database::get_users_in_group and Controller::user_is_in_group: a user
\* row whose username a user_group row of the group holds
user_is_in_group(db, username, group_id) ==
    /\ [username |-> username, group_id |-> group_id] \in db.user_group
    /\ username \in db.user

\* Database::insert_expense
insert_expense(db, username, amount, group_id, note) ==
    [db EXCEPT !.expense =
        Append(@, [id |-> Len(@) + 1, username |-> username, group_id |-> group_id,
                   amount |-> amount, note |-> note])]

\* (a bug: the user row written with INSERT OR REPLACE: replacing a row that
\* exists deletes it first, and the delete cascades to its user_group rows)
add_user_to_group_replacing(db, group_id, username, k, f) ==
    LET replaced == k \notin f /\ username \in db.user
        user == IF k \in f THEN db.user ELSE db.user \cup {username}
        kept == IF replaced THEN {r \in db.user_group : r.username # username}
                ELSE db.user_group
    IN  [db EXCEPT
            !.user = user,
            !.user_group =
                IF (k + 1) \in f \/ username \notin user
                   \/ ~IsSome(get_group_by_id(db, group_id))
                THEN kept
                ELSE kept \cup {[username |-> username, group_id |-> group_id]}]

\* Database::add_user_to_group: the insert of the user row (call k) and of
\* the user_group row (call k + 1).  Each is skipped when it fails, by a
\* fault, because the row's primary key is in the table already or, for the
\* user_group row, because a foreign key of it names no row (fk-user_group-
\* username, fk-user_group-group_id); the error is logged and the call
\* returns Ok(()).
add_user_to_group(db, group_id, username, k, f) ==
    LET user == IF k \in f THEN db.user ELSE db.user \cup {username}
    IN  [db EXCEPT
            !.user = user,
            !.user_group =
                IF (k + 1) \in f \/ username \notin user
                   \/ ~IsSome(get_group_by_id(db, group_id))
                THEN @
                ELSE @ \cup {[username |-> username, group_id |-> group_id]}]

\* the foreign keys of an expense row name a user row and a group row
expense_keys_exist(db, username, group_id) ==
    username \in db.user /\ IsSome(get_group_by_id(db, group_id))

(***************************************************************************)
(* Messages, and what a handler does: the change of the dialogue, the      *)
(* replies sent, the store it leaves, the store calls it made, its result  *)
(* and the settlement it computed.                                         *)
(***************************************************************************)
Msg(c, from, text) == [chat |-> c, from |-> from, text |-> text]

Keep == [op |-> "keep"]
Update(st) == [op |-> "update", state |-> st]
Exit == [op |-> "exit"]

Ok == [ok |-> TRUE, err |-> ""]
Err(e) == [ok |-> FALSE, err |-> e]

Out(dlg, sent, db, calls, result, calc, panic) ==
    [dlg |-> dlg, sent |-> sent, db |-> db, calls |-> calls, result |-> result,
     calc |-> calc, panic |-> panic]

\* the handler returned Ok(()) having replied
Done(dlg, sent, db, calls) == Out(dlg, sent, db, calls, Ok, None, FALSE)
\* the handler returned an error (the ? operator): nothing sent, no update
Failed(db, calls, e) == Out(Keep, <<>>, db, calls, Err(e), None, FALSE)

Reply(text) == [text |-> text]
ReplyWith(text, data) == [text |-> text, data |-> data]

\* get_author_username
get_author_username(msg) ==
    IF IsSome(msg.from)
    THEN IF IsSome(Unwrap(msg.from).username)
         THEN [ok |-> TRUE, value |-> <<"@">> \o Unwrap(Unwrap(msg.from).username)]
         ELSE [ok |-> FALSE, err |-> "Sorry, I can't detect your username"]
    ELSE [ok |-> FALSE, err |-> "Sorry, I can't get info about you"]

\* Controller::from_msg
from_msg(msg) ==
    IF IsSome(msg.from) THEN Ok ELSE Err("User not found")

(***************************************************************************)
(* The endpoints.  Each takes the store, the message and the set f of the  *)
(* store calls that fail, and gives what the handler does.                 *)
(***************************************************************************)
help(db, msg) ==
    Done(Keep, <<Reply("Splittea supports the following commands:")>>, db, <<>>)

\* The three commands that list the caller's groups before asking for a
\* group id (add_member_to_group, add_expense) or not (list_my_groups).
list_my_groups(db, msg, f) ==
    LET author == get_author_username(msg)
    IN  IF ~author.ok THEN Failed(db, <<>>, author.err)
        ELSE IF ~from_msg(msg).ok THEN Failed(db, <<>>, from_msg(msg).err)
        ELSE IF 1 \in f
        THEN Failed(db, <<"get_user_groups">>, "Retrieving user groups failed")
        ELSE LET groups == get_user_groups(db, author.value)
             IN  IF groups = <<>>
                 THEN Done(Update(Start), <<Reply("You don't belong to any group yet")>>,
                           db, <<"get_user_groups">>)
                 ELSE Done(Keep, <<ReplyWith("Here are your groups:", groups)>>,
                           db, <<"get_user_groups">>)

create_group(db, msg) ==
    Done(Update(ReceiveGroupName), <<Reply("Pick a name for your group")>>, db, <<>>)

\* (a bug: the group created before the author's username is asked for)
receive_group_name_creates_first(db, msg, f) ==
    IF ~IsSome(msg.text) THEN Done(Keep, <<>>, db, <<>>)
    ELSE LET group_name == Unwrap(msg.text)
             author == get_author_username(msg)
         IN  IF ~from_msg(msg).ok THEN Failed(db, <<>>, from_msg(msg).err)
             ELSE IF 1 \in f
             THEN Failed(db, <<"insert_group">>, "Group creation failed")
             ELSE LET created == insert_group(db, group_name)
                      cretaed_group == created.group[Len(created.group)]
                  IN  IF ~author.ok THEN Failed(created, <<"insert_group">>, author.err)
                      ELSE Done(Update(Start),
                                <<ReplyWith("Group was successfully created and you've been added to it",
                                            group_name)>>,
                                add_user_to_group(created, cretaed_group.id, author.value, 2, f),
                                <<"insert_group", "add_user_to_group">>)

receive_group_name(db, msg, f) ==
    IF ~IsSome(msg.text) THEN Done(Keep, <<>>, db, <<>>)
    ELSE LET group_name == Unwrap(msg.text)
             author == get_author_username(msg)
         IN  IF ~author.ok THEN Failed(db, <<>>, author.err)
             ELSE IF ~from_msg(msg).ok THEN Failed(db, <<>>, from_msg(msg).err)
             ELSE IF 1 \in f
             THEN Failed(db, <<"insert_group">>, "Group creation failed")
             ELSE LET created == insert_group(db, group_name)
                      cretaed_group == created.group[Len(created.group)]
                  IN  Done(Update(Start),
                           <<ReplyWith("Group was successfully created and you've been added to it",
                                       group_name)>>,
                           add_user_to_group(created, cretaed_group.id, author.value, 2, f),
                           <<"insert_group", "add_user_to_group">>)

add_member_to_group(db, msg, f) ==
    LET author == get_author_username(msg)
    IN  IF ~author.ok THEN Failed(db, <<>>, author.err)
        ELSE IF ~from_msg(msg).ok THEN Failed(db, <<>>, from_msg(msg).err)
        ELSE IF 1 \in f
        THEN Failed(db, <<"get_user_groups">>, "Retrieving user groups failed")
        ELSE LET groups == get_user_groups(db, author.value)
             IN  IF groups = <<>>
                 THEN Done(Update(Start), <<Reply("You don't belong to any group yet")>>,
                           db, <<"get_user_groups">>)
                 ELSE Done(Update(ReceiveGroupIdForAddMember),
                           <<ReplyWith("Choose id of the group where you want to add a member:",
                                       groups)>>,
                           db, <<"get_user_groups">>)

add_expense(db, msg, f) ==
    LET author == get_author_username(msg)
    IN  IF ~author.ok THEN Failed(db, <<>>, author.err)
        ELSE IF ~from_msg(msg).ok THEN Failed(db, <<>>, from_msg(msg).err)
        ELSE IF 1 \in f
        THEN Failed(db, <<"get_user_groups">>, "Retrieving user groups failed")
        ELSE LET groups == get_user_groups(db, author.value)
             IN  IF groups = <<>>
                 THEN Done(Update(Start), <<Reply("You don't belong to any group yet")>>,
                           db, <<"get_user_groups">>)
                 ELSE Done(Update(ReceiveGroupIdForExpense),
                           <<ReplyWith("Choose id of the group you'd like to add the expense:",
                                       groups)>>,
                           db, <<"get_user_groups">>)

\* (a bug: the group id taken only from a member of the group)
receive_group_id_for_expense_members_only(db, msg, f) ==
    IF ~IsSome(msg.text) THEN Done(Keep, <<>>, db, <<>>)
    ELSE LET parsed == ParseI64(Unwrap(msg.text))
             author == get_author_username(msg)
         IN  IF ~IsSome(parsed)
             THEN Done(Keep, <<Reply("Please, send a decimal value")>>, db, <<>>)
             ELSE IF ~from_msg(msg).ok THEN Failed(db, <<>>, from_msg(msg).err)
             ELSE IF 1 \in f
             THEN Failed(db, <<"get_group_by_id">>, "Retrieving group by id failed")
             ELSE LET group == get_group_by_id(db, Unwrap(parsed))
                  IN  IF ~IsSome(group) \/ ~author.ok
                      THEN Failed(db, <<"get_group_by_id">>, "Inexistent group id")
                      ELSE IF ~user_is_in_group(db, author.value, Unwrap(parsed))
                      THEN Failed(db, <<"get_group_by_id">>, "Inexistent group id")
                      ELSE Done(Update(RecieveAmountSpent(Unwrap(parsed))),
                                <<ReplyWith("You want to add an expense to a group. Now, type the amount you spent:",
                                            Unwrap(group).name)>>,
                                db, <<"get_group_by_id">>)

receive_group_id_for_expense(db, msg, f) ==
    IF ~IsSome(msg.text) THEN Done(Keep, <<>>, db, <<>>)
    ELSE LET parsed == ParseI64(Unwrap(msg.text))
         IN  IF ~IsSome(parsed)
             THEN Done(Keep, <<Reply("Please, send a decimal value")>>, db, <<>>)
             ELSE IF ~from_msg(msg).ok THEN Failed(db, <<>>, from_msg(msg).err)
             ELSE IF 1 \in f
             THEN Failed(db, <<"get_group_by_id">>, "Retrieving group by id failed")
             ELSE LET group == get_group_by_id(db, Unwrap(parsed))
                  IN  IF ~IsSome(group)
                      THEN Failed(db, <<"get_group_by_id">>, "Inexistent group id")
                      ELSE Done(Update(RecieveAmountSpent(Unwrap(parsed))),
                                <<ReplyWith("You want to add an expense to a group. Now, type the amount you spent:",
                                            Unwrap(group).name)>>,
                                db, <<"get_group_by_id">>)

\* (a bug: dialogue.update(Start) done in the branch of the report only)
receive_group_id_for_expenses_list_update_in_report(db, msg, f, order, debug) ==
    IF ~IsSome(msg.text) THEN Done(Keep, <<>>, db, <<>>)
    ELSE LET parsed == ParseI64(Unwrap(msg.text))
         IN  IF ~IsSome(parsed) THEN Done(Keep, <<>>, db, <<>>)
             ELSE IF ~from_msg(msg).ok THEN Failed(db, <<>>, from_msg(msg).err)
             ELSE IF 1 \in f
             THEN Failed(db, <<"get_expenses_in_group">>, "Retrieving expenses failed")
             ELSE LET expenses_in_group == get_expenses_in_group(db, Unwrap(parsed))
                      calc == Settle(expenses_in_group, order)
                  IN  IF expenses_in_group # <<>>
                      THEN IF debug /\ calc.debt_sum # 0
                           THEN Out(Keep, <<>>, db, <<"get_expenses_in_group">>,
                                    Err("panic"), Some(calc), TRUE)
                           ELSE Out(Update(Start),
                                    <<[text |-> "Group debt state:",
                                       no_debt |-> calc.transactions = <<>>,
                                       transactions |-> calc.transactions,
                                       expenses |-> expenses_in_group]>>,
                                    db, <<"get_expenses_in_group">>, Ok, Some(calc), FALSE)
                      ELSE Done(Keep,
                                <<Reply("There are no expenses yet in this group")>>,
                                db, <<"get_expenses_in_group">>)

\* The handler panics on its debug_assert! when the debts do not sum to
\* zero and the build has debug assertions.
receive_group_id_for_expenses_list(db, msg, f, order, debug) ==
    IF ~IsSome(msg.text) THEN Done(Keep, <<>>, db, <<>>)
    ELSE LET parsed == ParseI64(Unwrap(msg.text))
         IN  IF ~IsSome(parsed) THEN Done(Keep, <<>>, db, <<>>)
             ELSE IF ~from_msg(msg).ok THEN Failed(db, <<>>, from_msg(msg).err)
             ELSE IF 1 \in f
             THEN Failed(db, <<"get_expenses_in_group">>, "Retrieving expenses failed")
             ELSE LET expenses_in_group == get_expenses_in_group(db, Unwrap(parsed))
                      calc == Settle(expenses_in_group, order)
                  IN  IF expenses_in_group # <<>>
                      THEN IF debug /\ calc.debt_sum # 0
                           THEN Out(Keep, <<>>, db, <<"get_expenses_in_group">>,
                                    Err("panic"), Some(calc), TRUE)
                           ELSE Out(Update(Start),
                                    <<[text |-> "Group debt state:",
                                       no_debt |-> calc.transactions = <<>>,
                                       transactions |-> calc.transactions,
                                       expenses |-> expenses_in_group]>>,
                                    db, <<"get_expenses_in_group">>, Ok, Some(calc), FALSE)
                      ELSE Done(Update(Start),
                                <<Reply("There are no expenses yet in this group")>>,
                                db, <<"get_expenses_in_group">>)

\* (a bug: dialogue.update(ChatState::Start) left out)
receive_note_keeps_state(db, msg, f, group_id, amount) ==
    IF ~IsSome(msg.text) THEN Done(Keep, <<>>, db, <<>>)
    ELSE LET author == get_author_username(msg)
         IN  IF ~author.ok THEN Failed(db, <<>>, author.err)
             ELSE IF ~from_msg(msg).ok THEN Failed(db, <<>>, from_msg(msg).err)
             ELSE IF 1 \in f \/ ~expense_keys_exist(db, author.value, group_id)
             THEN Failed(db, <<"insert_expense">>, "Expense insertion failed")
             ELSE Done(Keep, <<Reply("The expense has been added")>>,
                       insert_expense(db, author.value, amount, group_id, Unwrap(msg.text)),
                       <<"insert_expense">>)

receive_note(db, msg, f, group_id, amount) ==
    IF ~IsSome(msg.text) THEN Done(Keep, <<>>, db, <<>>)
    ELSE LET author == get_author_username(msg)
         IN  IF ~author.ok THEN Failed(db, <<>>, author.err)
             ELSE IF ~from_msg(msg).ok THEN Failed(db, <<>>, from_msg(msg).err)
             ELSE IF 1 \in f \/ ~expense_keys_exist(db, author.value, group_id)
             THEN Failed(db, <<"insert_expense">>, "Expense insertion failed")
             ELSE Done(Update(Start), <<Reply("The expense has been added")>>,
                       insert_expense(db, author.value, amount, group_id, Unwrap(msg.text)),
                       <<"insert_expense">>)

\* (a bug: amount >= 0 accepted)
receive_amount_spent_nonnegative(db, msg, group_id) ==
    IF ~IsSome(msg.text) THEN Done(Keep, <<>>, db, <<>>)
    ELSE LET parsed == ParseDecimal(Unwrap(msg.text))
         IN  IF ~IsSome(parsed)
             THEN Done(Keep, <<Reply("Please, provide some decimal value:")>>, db, <<>>)
             ELSE IF Unwrap(parsed) >= 0
             THEN Done(Update(ReceiveNote(group_id, Unwrap(parsed))),
                       <<Reply("Provide some note:")>>, db, <<>>)
             ELSE Done(Keep, <<Reply("Please, provide some positive amount:")>>, db, <<>>)

receive_amount_spent(db, msg, group_id) ==
    IF ~IsSome(msg.text) THEN Done(Keep, <<>>, db, <<>>)
    ELSE LET parsed == ParseDecimal(Unwrap(msg.text))
         IN  IF ~IsSome(parsed)
             THEN Done(Keep, <<Reply("Please, provide some decimal value:")>>, db, <<>>)
             ELSE IF Unwrap(parsed) > 0
             THEN Done(Update(ReceiveNote(group_id, Unwrap(parsed))),
                       <<Reply("Provide some note:")>>, db, <<>>)
             ELSE Done(Keep, <<Reply("Please, provide some positive amount:")>>, db, <<>>)

receive_user_name(db, msg, f, group_id) ==
    IF ~IsSome(msg.text) THEN Done(Keep, <<>>, db, <<>>)
    ELSE LET nickname == Unwrap(msg.text)
         IN  IF nickname = <<>>
             THEN Done(Keep, <<Reply("Please, provide a username, starting from @:")>>,
                       db, <<>>)
             ELSE IF nickname[1] = "@"
             THEN IF ~from_msg(msg).ok THEN Failed(db, <<>>, from_msg(msg).err)
                  ELSE Done(Update(Start),
                            <<ReplyWith("User has been successfully added to a group",
                                        nickname)>>,
                            add_user_to_group(db, group_id, nickname, 1, f),
                            <<"add_user_to_group">>)
             ELSE Done(Keep, <<Reply("Please, provide a username, starting from @:")>>,
                       db, <<>>)

receive_group_id_for_add_member(db, msg, f) ==
    IF ~IsSome(msg.text) THEN Done(Keep, <<>>, db, <<>>)
    ELSE LET parsed == ParseI64(Unwrap(msg.text))
             author == get_author_username(msg)
         IN  IF ~IsSome(parsed)
             THEN Done(Keep, <<Reply("Please, send an integer value: ")>>, db, <<>>)
             ELSE IF ~author.ok THEN Failed(db, <<>>, author.err)
             ELSE IF ~from_msg(msg).ok THEN Failed(db, <<>>, from_msg(msg).err)
             ELSE IF 1 \in f
             THEN Failed(db, <<"get_users_in_group">>, "Retrieving users in group failed")
             ELSE IF user_is_in_group(db, author.value, Unwrap(parsed))
             THEN Done(Update(ReceiveUsername(Unwrap(parsed))),
                       <<Reply("Provide @username of that user: ")>>,
                       db, <<"get_users_in_group">>)
             ELSE Done(Keep, <<Reply("Please, provide id from the list: ")>>,
                       db, <<"get_users_in_group">>)

cancel(db, msg) ==
    Done(Exit, <<Reply("Canceled whatever you did")>>, db, <<>>)

\* (a bug: back to Start when the caller has no group, as add_expense does)
list_expenses_in_group_start_when_no_groups(db, msg, f) ==
    LET author == get_author_username(msg)
    IN  IF ~author.ok THEN Failed(db, <<>>, author.err)
        ELSE IF ~from_msg(msg).ok THEN Failed(db, <<>>, from_msg(msg).err)
        ELSE IF 1 \in f
        THEN Failed(db, <<"get_user_groups">>, "Retrieving user groups failed")
        ELSE LET groups == get_user_groups(db, author.value)
             IN  IF groups = <<>>
                 THEN Done(Update(Start),
                           <<Reply("You are not a member of any group, yet. You can create one with /creategroup")>>,
                           db, <<"get_user_groups">>)
                 ELSE Done(Update(ReceiveGroupIdForExpensesList),
                           <<ReplyWith("Good, choose id of one of your groups:", groups)>>,
                           db, <<"get_user_groups">>)

list_expenses_in_group(db, msg, f) ==
    LET author == get_author_username(msg)
    IN  IF ~author.ok THEN Failed(db, <<>>, author.err)
        ELSE IF ~from_msg(msg).ok THEN Failed(db, <<>>, from_msg(msg).err)
        ELSE IF 1 \in f
        THEN Failed(db, <<"get_user_groups">>, "Retrieving user groups failed")
        ELSE LET groups == get_user_groups(db, author.value)
             IN  IF groups = <<>>
                 THEN Done(Update(ReceiveGroupIdForExpensesList),
                           <<Reply("You are not a member of any group, yet. You can create one with /creategroup")>>,
                           db, <<"get_user_groups">>)
                 ELSE Done(Update(ReceiveGroupIdForExpensesList),
                           <<ReplyWith("Good, choose id of one of your groups:", groups)>>,
                           db, <<"get_user_groups">>)

\* (a bug: the message dropped with no reply)
invalid_state_silent(db, msg) == Done(Keep, <<>>, db, <<>>)

invalid_state(db, msg) ==
    Done(Keep, <<Reply("Unable to handle the message. Type /help to see the usage.")>>,
         db, <<>>)

(***************************************************************************)
(* The state.                                                              *)
(*   storage           InMemStorage<ChatState>: the dialogue of each chat, *)
(*                     None for a chat that has none                       *)
(*   db                the tables of the store                             *)
(*   dead              the chats whose handler panicked: teloxide handles  *)
(*                     the updates of a chat in one task, which the panic  *)
(*                     ends                                                *)
(*   debug_assertions  whether the build checks debug_assert!              *)
(*   last              what the last update handled was and did: the       *)
(*                     message, the dialogue state and the store it found, *)
(*                     the endpoint that ran, the replies it sent, the     *)
(*                     store calls it made, its result and the settlement  *)
(*                     it computed                                         *)
(***************************************************************************)
VARIABLES storage, db, dead, debug_assertions, last

vars == <<storage, db, dead, debug_assertions, last>>

Chats == {1, 2}

\* the usernames of the senders, the handles they make
UserA == <<"a">>
UserB == <<"b">>
UserC == <<"c">>
HandleA == <<"@">> \o UserA
HandleB == <<"@">> \o UserB
HandleC == <<"@">> \o UserC

\* msg.from(): a user with a username, a user with none, no user at all
From(username) == Some([username |-> Some(username)])
FromNoUsername == Some([username |-> None])
NoFrom == None

\* dialogue::enter: the state the handlers of a chat are given
Dialogue(c) == IF IsSome(storage[c]) THEN Unwrap(storage[c]) ELSE Start

NoLast ==
    [endpoint |-> "", msg |-> Msg(0, NoFrom, None), before |-> Start, db |-> EmptyDb,
     sent |-> <<>>, calls |-> <<>>, result |-> Ok, calc |-> None]

\* the sets of failing calls of a handler that makes n store calls
Faults(n) == SUBSET (1..n)

\* (a bug: one dialogue state kept for all chats, not one per chat id)
HandleShared(c, msg, ep, out) ==
    /\ c \notin dead
    /\ Endpoint(Dialogue(c), msg) = ep
    /\ out.db.group # db.group => Len(out.db.group) <= MaxGroups
    /\ out.db.expense # db.expense => Len(out.db.expense) <= MaxExpenses
    /\ storage' = CASE out.dlg.op = "keep" -> storage
                    [] out.dlg.op = "update" -> [x \in Chats |-> Some(out.dlg.state)]
                    [] out.dlg.op = "exit" -> [x \in Chats |-> None]
    /\ db' = out.db
    /\ dead' = IF out.panic THEN dead \cup {c} ELSE dead
    /\ last' = [endpoint |-> ep, msg |-> msg, before |-> Dialogue(c), db |-> db,
                sent |-> out.sent, calls |-> out.calls, result |-> out.result,
                calc |-> out.calc]
    /\ UNCHANGED debug_assertions

\* One update handled: the endpoint ep, given message msg of chat c, does
\* out.
Handle(c, msg, ep, out) ==
    /\ c \notin dead
    /\ Endpoint(Dialogue(c), msg) = ep
    /\ out.db.group # db.group => Len(out.db.group) <= MaxGroups
    /\ out.db.expense # db.expense => Len(out.db.expense) <= MaxExpenses
    /\ storage' = CASE out.dlg.op = "keep" -> storage
                    [] out.dlg.op = "update" -> [storage EXCEPT ![c] = Some(out.dlg.state)]
                    [] out.dlg.op = "exit" -> [storage EXCEPT ![c] = None]
    /\ db' = out.db
    /\ dead' = IF out.panic THEN dead \cup {c} ELSE dead
    /\ last' = [endpoint |-> ep, msg |-> msg, before |-> Dialogue(c), db |-> db,
                sent |-> out.sent, calls |-> out.calls, result |-> out.result,
                calc |-> out.calc]
    /\ UNCHANGED debug_assertions

OnHelp(c, msg) == Handle(c, msg, "help", help(db, msg))

OnListMyGroups(c, msg) ==
    \E f \in Faults(1) : Handle(c, msg, "list_my_groups", list_my_groups(db, msg, f))

OnCreateGroup(c, msg) == Handle(c, msg, "create_group", create_group(db, msg))

OnReceiveGroupName(c, msg) ==
    \E f \in Faults(3) : Handle(c, msg, "receive_group_name", receive_group_name(db, msg, f))

OnAddMemberToGroup(c, msg) ==
    \E f \in Faults(1) :
        Handle(c, msg, "add_member_to_group", add_member_to_group(db, msg, f))

OnAddExpense(c, msg) ==
    \E f \in Faults(1) : Handle(c, msg, "add_expense", add_expense(db, msg, f))

OnReceiveGroupIdForExpense(c, msg) ==
    \E f \in Faults(1) :
        Handle(c, msg, "receive_group_id_for_expense",
               receive_group_id_for_expense(db, msg, f))

\* the HashMap of the settlement is iterated in any order of its keys
OnReceiveGroupIdForExpensesList(c, msg) ==
    \E f \in Faults(1) :
        LET parsed == IF IsSome(msg.text) THEN ParseI64(Unwrap(msg.text)) ELSE None
            rows == IF IsSome(parsed) THEN get_expenses_in_group(db, Unwrap(parsed))
                    ELSE <<>>
        IN  \E order \in Orders(Spenders(rows)) :
                Handle(c, msg, "receive_group_id_for_expenses_list",
                       receive_group_id_for_expenses_list(db, msg, f, order,
                                                          debug_assertions))

OnReceiveNote(c, msg) ==
    \E f \in Faults(1) :
        Handle(c, msg, "receive_note",
               receive_note(db, msg, f, Dialogue(c).group_id, Dialogue(c).amount))

OnReceiveAmountSpent(c, msg) ==
    Handle(c, msg, "receive_amount_spent",
           receive_amount_spent(db, msg, Dialogue(c).group_id))

OnReceiveUserName(c, msg) ==
    \E f \in Faults(2) :
        Handle(c, msg, "receive_user_name",
               receive_user_name(db, msg, f, Dialogue(c).group_id))

OnReceiveGroupIdForAddMember(c, msg) ==
    \E f \in Faults(1) :
        Handle(c, msg, "receive_group_id_for_add_member",
               receive_group_id_for_add_member(db, msg, f))

OnCancel(c, msg) == Handle(c, msg, "cancel", cancel(db, msg))

OnListExpensesInGroup(c, msg) ==
    \E f \in Faults(1) :
        Handle(c, msg, "list_expenses_in_group", list_expenses_in_group(db, msg, f))

OnInvalidState(c, msg) == Handle(c, msg, "invalid_state", invalid_state(db, msg))

(***************************************************************************)
(* Spec: one chat in which two users, a user with no username and a        *)
(* sender with no user write.  What they write depends on what the bot     *)
(* asked for: a command or another text in Start, a text or no text (a     *)
(* photo) where a name or a note is asked for, an existing id, an id of no *)
(* group, a decimal that is no integer or a text that is no number where a *)
(* number is asked for, a handle, an empty text or a text without "@"      *)
(* where a handle is asked for, and /cancel anywhere.                      *)
(***************************************************************************)
TextTrip == <<"t", "r", "i", "p">>

Commands ==
    {Some(TextHelp), Some(TextCreateGroup), Some(TextAddMemberToGroup),
     Some(TextAddExpense), Some(TextListExpensesInGroup), Some(TextListMyGroups),
     Some(TextCancel)}

TextsIn(st) ==
    CASE st.tag = "Start" -> Commands \cup {Some(TextTrip)}
      [] st.tag \in {"ReceiveGroupName", "ReceiveNote"} ->
             {Some(TextTrip), Some(TextCancel), None}
      [] st.tag = "ReceiveUsername" ->
             {Some(HandleB), Some(<<>>), Some(TextTrip), Some(TextCancel), None}
      [] OTHER ->
             {Some(<<"1">>), Some(<<"0">>), Some(<<"1", ".", "5">>), Some(TextTrip),
              Some(TextCancel), None}

Froms == {From(UserA), From(UserB), FromNoUsername, NoFrom}

Init ==
    /\ storage = [c \in Chats |-> None]
    /\ db = EmptyDb
    /\ dead = {}
    /\ debug_assertions \in BOOLEAN
    /\ last = NoLast

\* the messages chat c may get
Msgs(c) == {Msg(c, from, text) : from \in Froms, text \in TextsIn(Dialogue(c))}

\* One update of chat 1 handled: the endpoint the handler tree gives it runs.
Next ==
    \/ \E msg \in Msgs(1) : OnHelp(1, msg)
    \/ \E msg \in Msgs(1) : OnListMyGroups(1, msg)
    \/ \E msg \in Msgs(1) : OnCreateGroup(1, msg)
    \/ \E msg \in Msgs(1) : OnReceiveGroupName(1, msg)
    \/ \E msg \in Msgs(1) : OnAddMemberToGroup(1, msg)
    \/ \E msg \in Msgs(1) : OnAddExpense(1, msg)
    \/ \E msg \in Msgs(1) : OnReceiveGroupIdForExpense(1, msg)
    \/ \E msg \in Msgs(1) : OnReceiveGroupIdForExpensesList(1, msg)
    \/ \E msg \in Msgs(1) : OnReceiveNote(1, msg)
    \/ \E msg \in Msgs(1) : OnReceiveAmountSpent(1, msg)
    \/ \E msg \in Msgs(1) : OnReceiveUserName(1, msg)
    \/ \E msg \in Msgs(1) : OnReceiveGroupIdForAddMember(1, msg)
    \/ \E msg \in Msgs(1) : OnCancel(1, msg)
    \/ \E msg \in Msgs(1) : OnListExpensesInGroup(1, msg)
    \/ \E msg \in Msgs(1) : OnInvalidState(1, msg)

Spec == Init /\ [][Next]_vars

(***************************************************************************)
(* SpecSettle: the settlement on every expense table of a bounded size.    *)
(* The store holds one group whose members are three users, the expense    *)
(* rows are any rows of theirs with amounts of 10, 20, 30 or 40, and the   *)
(* chat is about to name the group whose expenses it lists.  A member      *)
(* lists the expenses of the group, again and again.                       *)
(***************************************************************************)
SettleHandles == {HandleA, HandleB, HandleC}

SettleAmounts == {10 * One, 20 * One, 30 * One, 40 * One}

SettleRows ==
    UNION {[1..n -> [username : SettleHandles, amount : SettleAmounts]] :
           n \in 0..MaxSettleExpenses}

SettleDb(rows) ==
    [group |-> <<[id |-> 1, name |-> TextTrip]>>,
     user |-> SettleHandles,
     user_group |-> {[username |-> u, group_id |-> 1] : u \in SettleHandles},
     expense |-> [i \in 1..Len(rows) |->
                     [id |-> i, username |-> rows[i].username, group_id |-> 1,
                      amount |-> rows[i].amount, note |-> TextTrip]]]

SettleInit ==
    /\ storage = [c \in Chats |-> IF c = 1 THEN Some(ReceiveGroupIdForExpensesList) ELSE None]
    /\ db \in {SettleDb(rows) : rows \in SettleRows}
    /\ dead = {}
    /\ debug_assertions \in BOOLEAN
    /\ last = NoLast

SettleMsgs == {Msg(1, From(UserA), text) : text \in {Some(TextListExpensesInGroup), Some(<<"1">>)}}

SettleNext ==
    \/ \E msg \in SettleMsgs : OnListExpensesInGroup(1, msg)
    \/ \E msg \in SettleMsgs : OnReceiveGroupIdForExpensesList(1, msg)

SpecSettle == SettleInit /\ [][SettleNext]_vars

(***************************************************************************)
(* SpecChats: two chats, in each of which one user writes; the updates of  *)
(* the two chats are handled in any order.  A chat gets any command or a   *)
(* text that is none in Start, and the input its state asks for or         *)
(* /cancel in the other states.                                            *)
(***************************************************************************)
ChatTextsIn(st) ==
    CASE st.tag = "Start" -> Commands \cup {Some(TextTrip)}
      [] st.tag \in {"ReceiveGroupName", "ReceiveNote"} ->
             {Some(TextTrip), Some(TextCancel)}
      [] st.tag = "ReceiveUsername" -> {Some(HandleB), Some(TextCancel)}
      [] OTHER -> {Some(<<"1">>), Some(TextCancel)}

\* the messages chat c may get: chat 1 is written to by a, chat 2 by b
ChatMsgs(c) ==
    {Msg(c, From(IF c = 1 THEN UserA ELSE UserB), text) :
        text \in ChatTextsIn(Dialogue(c))}

ChatsNext ==
    \/ \E c \in Chats : \E msg \in ChatMsgs(c) : OnHelp(c, msg)
    \/ \E c \in Chats : \E msg \in ChatMsgs(c) : OnListMyGroups(c, msg)
    \/ \E c \in Chats : \E msg \in ChatMsgs(c) : OnCreateGroup(c, msg)
    \/ \E c \in Chats : \E msg \in ChatMsgs(c) : OnReceiveGroupName(c, msg)
    \/ \E c \in Chats : \E msg \in ChatMsgs(c) : OnAddMemberToGroup(c, msg)
    \/ \E c \in Chats : \E msg \in ChatMsgs(c) : OnAddExpense(c, msg)
    \/ \E c \in Chats : \E msg \in ChatMsgs(c) : OnReceiveGroupIdForExpense(c, msg)
    \/ \E c \in Chats : \E msg \in ChatMsgs(c) : OnReceiveGroupIdForExpensesList(c, msg)
    \/ \E c \in Chats : \E msg \in ChatMsgs(c) : OnReceiveNote(c, msg)
    \/ \E c \in Chats : \E msg \in ChatMsgs(c) : OnReceiveAmountSpent(c, msg)
    \/ \E c \in Chats : \E msg \in ChatMsgs(c) : OnReceiveUserName(c, msg)
    \/ \E c \in Chats : \E msg \in ChatMsgs(c) : OnReceiveGroupIdForAddMember(c, msg)
    \/ \E c \in Chats : \E msg \in ChatMsgs(c) : OnCancel(c, msg)
    \/ \E c \in Chats : \E msg \in ChatMsgs(c) : OnListExpensesInGroup(c, msg)
    \/ \E c \in Chats : \E msg \in ChatMsgs(c) : OnInvalidState(c, msg)

SpecChats == Init /\ [][ChatsNext]_vars

(***************************************************************************)
(* SpecMatch: the store holds one group of four members, each of whom has  *)
(* no expense row or one row of 10, 20, 30 or 40, so that a settlement can *)
(* have two debtors and two creditors; a member lists the expenses of the  *)
(* group, again and again.                                                 *)
(***************************************************************************)
UserD == <<"d">>
HandleD == <<"@">> \o UserD

MatchHandles == <<HandleA, HandleB, HandleC, HandleD>>

\* what each of the four spent: nothing, or one of the amounts
MatchSpent == [1..Len(MatchHandles) -> {0} \cup SettleAmounts]

MatchRows(spent) ==
    SelectSeq([i \in 1..Len(MatchHandles) |->
                  [username |-> MatchHandles[i], amount |-> spent[i]]],
              LAMBDA r : r.amount > 0)

MatchDb(rows) ==
    [group |-> <<[id |-> 1, name |-> TextTrip]>>,
     user |-> Range(MatchHandles),
     user_group |-> {[username |-> u, group_id |-> 1] : u \in Range(MatchHandles)},
     expense |-> [i \in 1..Len(rows) |->
                     [id |-> i, username |-> rows[i].username, group_id |-> 1,
                      amount |-> rows[i].amount, note |-> TextTrip]]]

MatchInit ==
    /\ storage = [c \in Chats |-> IF c = 1 THEN Some(ReceiveGroupIdForExpensesList) ELSE None]
    /\ db \in {MatchDb(MatchRows(spent)) : spent \in MatchSpent}
    /\ dead = {}
    /\ debug_assertions \in BOOLEAN
    /\ last = NoLast

MatchNext ==
    \/ \E msg \in SettleMsgs : OnListExpensesInGroup(1, msg)
    \/ \E msg \in SettleMsgs : OnReceiveGroupIdForExpensesList(1, msg)

SpecMatch == MatchInit /\ [][MatchNext]_vars

(***************************************************************************)
(* SpecCmd: one chat in which one user writes, in every state, a command   *)
(* that selects a flow (any of them where an id or a handle is asked for,  *)
(* /help or /creategroup where a name or a note is), the input the state   *)
(* asks for, or a message with no text (a photo); in Start also /cancel    *)
(* and a text that is no command.                                          *)
(***************************************************************************)
FlowCommands == Commands \ {Some(TextCancel)}

CmdTextsIn(st) ==
    CASE st.tag = "Start" -> Commands \cup {Some(TextTrip), None}
      [] st.tag \in {"ReceiveGroupName", "ReceiveNote"} ->
             {Some(TextHelp), Some(TextCreateGroup), Some(TextTrip), None}
      [] st.tag = "ReceiveUsername" -> FlowCommands \cup {Some(HandleB), None}
      [] OTHER -> FlowCommands \cup {Some(<<"1">>), None}

CmdMsgs == {Msg(1, From(UserA), text) : text \in CmdTextsIn(Dialogue(1))}

CmdNext ==
    \/ \E msg \in CmdMsgs : OnHelp(1, msg)
    \/ \E msg \in CmdMsgs : OnListMyGroups(1, msg)
    \/ \E msg \in CmdMsgs : OnCreateGroup(1, msg)
    \/ \E msg \in CmdMsgs : OnReceiveGroupName(1, msg)
    \/ \E msg \in CmdMsgs : OnAddMemberToGroup(1, msg)
    \/ \E msg \in CmdMsgs : OnAddExpense(1, msg)
    \/ \E msg \in CmdMsgs : OnReceiveGroupIdForExpense(1, msg)
    \/ \E msg \in CmdMsgs : OnReceiveGroupIdForExpensesList(1, msg)
    \/ \E msg \in CmdMsgs : OnReceiveNote(1, msg)
    \/ \E msg \in CmdMsgs : OnReceiveAmountSpent(1, msg)
    \/ \E msg \in CmdMsgs : OnReceiveUserName(1, msg)
    \/ \E msg \in CmdMsgs : OnReceiveGroupIdForAddMember(1, msg)
    \/ \E msg \in CmdMsgs : OnCancel(1, msg)
    \/ \E msg \in CmdMsgs : OnListExpensesInGroup(1, msg)
    \/ \E msg \in CmdMsgs : OnInvalidState(1, msg)

SpecCmd == Init /\ [][CmdNext]_vars

(***************************************************************************)
(* What the properties below speak of.                                     *)
(***************************************************************************)
\* the text of the last message is the command /cancel
LastIsCancel == ParseCommand(last.msg.text) = Some("Cancel")

LastText == Unwrap(last.msg.text)

\* The last message was an invalid input of the data-entry state it was
\* sent in: a text that is no integer where a group id is asked for, the id
\* of a group the sender is no member of (add member) or that does not
\* exist (add expense), a text that is no decimal or a decimal that is not
\* positive where an amount is asked for, an empty text or a text that does
\* not begin with "@" where a handle is asked for.
LastIsInvalidInput ==
    /\ IsSome(last.msg.text)
    /\ ~LastIsCancel
    /\ \/ /\ last.before.tag \in {"ReceiveGroupIdForAddMember", "ReceiveGroupIdForExpense",
                                  "ReceiveGroupIdForExpensesList"}
          /\ ~IsSome(ParseI64(LastText))
       \/ /\ last.before.tag = "ReceiveGroupIdForAddMember"
          /\ IsSome(ParseI64(LastText))
          /\ get_author_username(last.msg).ok
          /\ [username |-> get_author_username(last.msg).value,
              group_id |-> Unwrap(ParseI64(LastText))] \notin last.db.user_group
       \/ /\ last.before.tag = "ReceiveGroupIdForExpense"
          /\ IsSome(ParseI64(LastText))
          /\ \A i \in 1..Len(last.db.group) :
                 last.db.group[i].id # Unwrap(ParseI64(LastText))
       \/ /\ last.before.tag = "RecieveAmountSpent"
          /\ (IsSome(ParseDecimal(LastText)) => Unwrap(ParseDecimal(LastText)) <= 0)
       \/ /\ last.before.tag = "ReceiveUsername"
          /\ (LastText = <<>> \/ LastText[1] # "@")

\* the last update listed the expenses of a group that has some: the
\* settlement was computed
Settled == IsSome(last.calc)
Calc == Unwrap(last.calc)

\* the last update sent the report of a settlement
Reported == Settled /\ last.result.ok /\ Len(last.sent) = 1
\* the transfers of that report
Transfers == last.sent[1].transactions

\* the group whose expenses were listed, its rows and its members
ListedGroup == Unwrap(ParseI64(LastText))
ListedRows == SelectSeq(last.db.expense, LAMBDA e : e.group_id = ListedGroup)
ListedMembers == {ug.username : ug \in {x \in last.db.user_group : x.group_id = ListedGroup}}

\* what a handle spent in the listed group
RECURSIVE AmountsOf(_, _)
AmountsOf(rows, u) ==
    IF rows = <<>> THEN <<>>
    ELSE (IF rows[1].username = u THEN <<rows[1].amount>> ELSE <<>>)
         \o AmountsOf(Tail(rows), u)
Spent(u) == SumSeq(AmountsOf(ListedRows, u))
ListedSpenders == {u \in SettleHandles : AmountsOf(ListedRows, u) # <<>>}
ListedTotal == SumSeq([i \in 1..Len(ListedRows) |-> ListedRows[i].amount])

\* what a handle pays and receives in the transfers of the report
Paid(u) ==
    SumSeq([i \in 1..Len(Transfers) |->
               IF Transfers[i].debtor = u THEN Transfers[i].amount ELSE 0])
Received(u) ==
    SumSeq([i \in 1..Len(Transfers) |->
               IF Transfers[i].creditor = u THEN Transfers[i].amount ELSE 0])
InTransfers(u) ==
    \E i \in 1..Len(Transfers) : Transfers[i].debtor = u \/ Transfers[i].creditor = u

Names(list) == {list[i].username : i \in 1..Len(list)}

(***************************************************************************)
(* The properties.                                                         *)
(***************************************************************************)

\* C1: whatever the state of the session, a /cancel message leaves the
\* session in Start and the store as it was.
C1_CancelResets ==
    LastIsCancel => /\ Dialogue(last.msg.chat) = Start
                    /\ db = last.db

\* C1, witness: a /cancel was handled in ReceiveNote, which carried a group
\* id and an amount.
C1_Witness ==
    /\ LastIsCancel
    /\ last.before.tag = "ReceiveNote"
    /\ last.endpoint = "cancel"

\* C2: an invalid input of a data-entry state leaves the state of the
\* session, with the group id and amount it carries, and the store as they
\* were.
C2_InvalidInputKeepsState ==
    LastIsInvalidInput => /\ Dialogue(last.msg.chat) = last.before
                          /\ db = last.db

\* C2, witness: an amount that is not positive was sent in
\* RecieveAmountSpent, which carried a group id, and was answered.
C2_Witness ==
    /\ LastIsInvalidInput
    /\ last.before.tag = "RecieveAmountSpent"
    /\ IsSome(ParseDecimal(LastText))
    /\ last.sent # <<>>

\* C3 (as claimed): an invalid input of a data-entry state is answered with
\* exactly one reply.
C3_InvalidInputOneReply ==
    LastIsInvalidInput => Len(last.sent) = 1

\* C4 (as claimed): in the transfers of a report every creditor receives
\* its balance and every debtor pays the absolute value of its balance.
C4_TransfersSettleBalances ==
    Reported =>
        \A i \in 1..Len(Calc.user_debt) :
            LET e == Calc.user_debt[i]
            IN  /\ e.debt > 0 => Received(e.username) = e.debt /\ Paid(e.username) = 0
                /\ e.debt < 0 => Paid(e.username) = -e.debt /\ Received(e.username) = 0

\* C5 (as claimed): the balances (spent minus mean) of a settlement sum to
\* zero, so that the debug_assert! holds.
C5_BalancesSumToZero ==
    Settled => SumSeq([i \in 1..Len(Calc.user_debt) |-> Calc.user_debt[i].debt]) = 0

\* C6 (as claimed): the transfers reported are the ones any run of the
\* settlement on the same rows gives, whatever order the map is iterated in.
C6_SameRowsSameTransfers ==
    Reported =>
        \A order \in Orders(Spenders(ListedRows)) :
            Settle(ListedRows, order).transactions = Transfers

\* Scenario A: a report on a group of three members of whom one spent 30
\* and the others nothing.
ScenarioA(u) ==
    /\ Reported
    /\ ListedMembers = SettleHandles
    /\ Spent(u) = 30 * One
    /\ \A v \in SettleHandles \ {u} : Spent(v) = 0

\* C7 (as claimed): in scenario A the mean is 10 and each of the two who
\* spent nothing owes 10 to the one who spent 30.
C7_ScenarioAAsClaimed ==
    \A u \in SettleHandles :
        ScenarioA(u) =>
            /\ Calc.mean = 10 * One
            /\ Len(Transfers) = 2
            /\ \A v \in SettleHandles \ {u} :
                   [debtor |-> v, creditor |-> u, amount |-> 10 * One] \in Range(Transfers)

\* C7 (amended): in scenario A the sum is divided by the one handle that
\* spent: the mean is 30 and the report holds no transfer.
C7_ScenarioA ==
    \A u \in SettleHandles :
        ScenarioA(u) => Calc.mean = 30 * One /\ Transfers = <<>>

\* C7, witness: a report in scenario A, the 30 spent in two expenses.
C7_Witness ==
    \E u \in SettleHandles : ScenarioA(u) /\ Len(ListedRows) = 2

\* C8: the mean is the total divided by the number of the handles that
\* spent, to the nearest unit, and a member of the group with no expense
\* has no balance and is in no transfer.
C8_MeanOverSpenders ==
    Reported =>
        /\ 2 * Abs(ListedTotal - Cardinality(ListedSpenders) * Calc.mean)
               <= Cardinality(ListedSpenders)
        /\ \A u \in ListedMembers \ ListedSpenders :
               u \notin Names(Calc.user_debt) /\ ~InTransfers(u)

\* C8, witness: a report with transfers on a group of three members, one
\* of whom spent nothing.
C8_Witness ==
    /\ Reported
    /\ ListedMembers \ ListedSpenders # {}
    /\ Cardinality(ListedSpenders) = 2
    /\ Transfers # <<>>

\* Scenario B: a report on three handles that spent 10, 20 and 30.
ScenarioB(u1, u2, u3) ==
    /\ Reported
    /\ Spent(u1) = 10 * One
    /\ Spent(u2) = 20 * One
    /\ Spent(u3) = 30 * One

\* C9: in scenario B the mean is 20 and the only transfer is 10 from the
\* one who spent 10 to the one who spent 30.
C9_ScenarioB ==
    \A u1, u2, u3 \in SettleHandles :
        ScenarioB(u1, u2, u3) =>
            /\ Calc.mean = 20 * One
            /\ Transfers = <<[debtor |-> u1, creditor |-> u3, amount |-> 10 * One]>>

\* C9, witness: a report in scenario B.
C9_Witness == \E u1, u2, u3 \in SettleHandles : ScenarioB(u1, u2, u3)

\* C10: a handle whose balance is zero is in neither list of the
\* settlement and in no transfer of the report.
C10_SettledInNoTransfer ==
    Settled =>
        \A i \in 1..Len(Calc.user_debt) :
            Calc.user_debt[i].debt = 0 =>
                /\ Calc.user_debt[i].username \notin Names(Calc.creditors)
                /\ Calc.user_debt[i].username \notin Names(Calc.debitors)
                /\ Reported => ~InTransfers(Calc.user_debt[i].username)

\* C10, witness: a report with a transfer and a handle whose balance is
\* zero.
C10_Witness ==
    /\ Reported
    /\ Transfers # <<>>
    /\ \E i \in 1..Len(Calc.user_debt) : Calc.user_debt[i].debt = 0

\* the last update was a text, parsed as an integer, handled by
\* receive_group_id_for_expenses_list, which returned Ok(()): no collaborator
\* failed
ListedOk ==
    /\ last.endpoint = "receive_group_id_for_expenses_list"
    /\ IsSome(last.msg.text)
    /\ IsSome(ParseI64(LastText))
    /\ last.result.ok

\* C11: when one handle recorded all the expenses of the group listed, the
\* mean is that handle's total, its balance is zero, and the report holds no
\* transfer and says that there is no debt.
C11_ScenarioC ==
    \A u \in SettleHandles :
        Settled /\ ListedSpenders = {u} =>
            /\ Calc.mean = Spent(u)
            /\ Calc.user_debt = <<[username |-> u, debt |-> 0]>>
            /\ Calc.transactions = <<>>
            /\ Reported /\ Transfers = <<>> /\ last.sent[1].no_debt

\* C11, witness: a report on a group in which one handle recorded three
\* expenses of different amounts.
C11_Witness ==
    /\ Reported
    /\ Cardinality(ListedSpenders) = 1
    /\ Len(ListedRows) = 3
    /\ ListedRows[1].amount # ListedRows[2].amount

\* C12: an integer sent in ReceiveGroupIdForExpensesList for which the store
\* holds no expense is answered with "There are no expenses yet in this
\* group", computes no settlement, and leaves the session in Start; and a
\* settlement is only ever computed over at least one spender.
C12_ScenarioD ==
    /\ ListedOk /\ ListedRows = <<>> =>
           /\ last.sent = <<Reply("There are no expenses yet in this group")>>
           /\ ~Settled
           /\ Dialogue(last.msg.chat) = Start
    /\ Settled => Calc.order # <<>> /\ ListedRows # <<>>

\* C12, witness: the id of an existing group with no expense was sent in
\* ReceiveGroupIdForExpensesList and answered.
C12_Witness ==
    /\ ListedOk
    /\ ListedRows = <<>>
    /\ IsSome(get_group_by_id(last.db, ListedGroup))
    /\ last.before = ReceiveGroupIdForExpensesList
    /\ last.sent # <<>>

\* what get_author_username gives for the last message
LastAuthor == get_author_username(last.msg)

\* the errors of the store calls (controller.rs) and of the sender's identity
StoreErrors ==
    {"Retrieving user groups failed", "Group creation failed",
     "Retrieving group by id failed", "Retrieving expenses failed",
     "Expense insertion failed", "Retrieving users in group failed"}
IdentityErrors ==
    {"Sorry, I can't detect your username", "Sorry, I can't get info about you",
     "User not found"}

\* the user_group row the add_user_to_group call of the last update was to
\* insert
AddedTo ==
    IF last.endpoint = "receive_user_name"
    THEN [username |-> LastText, group_id |-> last.before.group_id]
    ELSE [username |-> LastAuthor.value, group_id |-> Len(db.group)]

\* the last update called add_user_to_group and an insert of it failed: the
\* store does not hold the row
LastInsertFailed ==
    /\ "add_user_to_group" \in Range(last.calls)
    /\ AddedTo \notin db.user_group \/ AddedTo.username \notin db.user

\* a store call of the last update failed
LastStoreFailed ==
    \/ ~last.result.ok /\ last.result.err \in StoreErrors
    \/ LastInsertFailed

\* C14 (as claimed): when a store call of an update fails, the session
\* keeps the state it had before the update.
C14_StoreFailureKeepsState ==
    LastStoreFailed => Dialogue(last.msg.chat) = last.before

\* C15 (as claimed): when an update is aborted by an identity error or by a
\* failure of the store, a reply is sent to the user.
C15_FailureIsReported ==
    ~last.result.ok /\ last.result.err \in StoreErrors \cup IdentityErrors =>
        last.sent # <<>>

\* the endpoints that ask for the author's username
IdentityHandlers ==
    {"list_my_groups", "add_member_to_group", "add_expense", "list_expenses_in_group",
     "receive_group_name", "receive_group_id_for_add_member", "receive_note"}

\* C16: when the sender has no username, or the message no sender, the
\* handlers that ask for the author's username leave the store and the
\* session as they were.
C16_NoIdentityNoMutation ==
    last.endpoint \in IdentityHandlers /\ ~LastAuthor.ok =>
        /\ db = last.db
        /\ Dialogue(last.msg.chat) = last.before

\* C16, witness: a group name sent by a user with no username, and a note
\* sent by one, were aborted with the identity error.
C16_Witness ==
    /\ last.endpoint \in {"receive_group_name", "receive_note"}
    /\ IsSome(last.msg.text)
    /\ IsSome(last.msg.from)
    /\ ~LastAuthor.ok
    /\ last.result = Err("Sorry, I can't detect your username")

\* C17 (as claimed): in ReceiveGroupIdForExpensesList an integer that names
\* no group gives an error and no reply, and a report is of an existing
\* group and holds its name.
C17_UnknownGroupIsAnError ==
    /\ last.endpoint = "receive_group_id_for_expenses_list"
    /\ IsSome(last.msg.text)
    /\ IsSome(ParseI64(LastText))
    => /\ ~IsSome(get_group_by_id(last.db, ListedGroup)) =>
              ~last.result.ok /\ last.sent = <<>>
       /\ Reported =>
              /\ IsSome(get_group_by_id(last.db, ListedGroup))
              /\ "group_name" \in DOMAIN last.sent[1]

\* C18 (as claimed): when a text sent in ReceiveGroupName has brought the
\* session to Start, the store holds a new group of that name and its
\* sender is a member of it.
C18_CreatedGroupHasCreator ==
    /\ last.endpoint = "receive_group_name"
    /\ IsSome(last.msg.text)
    /\ Dialogue(last.msg.chat) = Start
    => /\ Len(db.group) = Len(last.db.group) + 1
       /\ db.group[Len(db.group)].name = LastText
       /\ LastAuthor.ok
       /\ [username |-> LastAuthor.value, group_id |-> db.group[Len(db.group)].id]
              \in db.user_group

\* C19 (as claimed): when a message handled in ReceiveUsername{g} adds a
\* membership, its sender was a member of g.
C19_AdderIsMember ==
    last.endpoint = "receive_user_name" /\ db.user_group # last.db.user_group =>
        /\ LastAuthor.ok
        /\ [username |-> LastAuthor.value, group_id |-> last.before.group_id]
               \in last.db.user_group

\* C20 (as claimed): of the updates the handlers complete, one in
\* ReceiveGroupIdForAddMember writes nothing and moves to ReceiveUsername{g}
\* exactly when its text is an integer g and its sender a member of g; one in
\* ReceiveUsername{g} whose text begins with "@" adds the membership of that
\* handle in g and moves to Start; and ReceiveUsername is entered from
\* ReceiveGroupIdForAddMember only.
C20_AddMemberTransitions ==
    /\ last.endpoint = "receive_group_id_for_add_member" /\ last.result.ok =>
           /\ db = last.db
           /\ Dialogue(last.msg.chat).tag = "ReceiveUsername" <=>
                  /\ IsSome(last.msg.text)
                  /\ IsSome(ParseI64(LastText))
                  /\ LastAuthor.ok
                  /\ [username |-> LastAuthor.value, group_id |-> ListedGroup]
                         \in last.db.user_group
           /\ Dialogue(last.msg.chat).tag = "ReceiveUsername" =>
                  Dialogue(last.msg.chat).group_id = ListedGroup
    /\ /\ last.endpoint = "receive_user_name"
       /\ last.result.ok
       /\ IsSome(last.msg.text)
       /\ LastText # <<>>
       /\ LastText[1] = "@"
       => /\ [username |-> LastText, group_id |-> last.before.group_id] \in db.user_group
          /\ Dialogue(last.msg.chat) = Start
    /\ last.endpoint # "" /\ Dialogue(last.msg.chat).tag = "ReceiveUsername" =>
           \/ last.before.tag = "ReceiveGroupIdForAddMember"
           \/ last.before = Dialogue(last.msg.chat)

\* the endpoint that begins the flow of a command
FlowEntry(cmd) ==
    CASE cmd = "Help" -> "help"
      [] cmd = "ListMyGroups" -> "list_my_groups"
      [] cmd = "CreateGroup" -> "create_group"
      [] cmd = "AddMemberToGroup" -> "add_member_to_group"
      [] cmd = "AddExpense" -> "add_expense"
      [] cmd = "ListExpensesInGroup" -> "list_expenses_in_group"
      [] cmd = "Cancel" -> "cancel"

\* C21 (as claimed): a command that selects a flow is given to the entry
\* point of its flow, whatever the state of the session.
C21_CommandsDispatchInAnyState ==
    /\ IsSome(ParseCommand(last.msg.text))
    /\ ~LastIsCancel
    => last.endpoint = FlowEntry(Unwrap(ParseCommand(last.msg.text)))

\* C22: a message that is no command, sent in Start, is answered with the
\* reply of invalid_state and leaves the session and the store as they
\* were; no other message is given to invalid_state.
C22_UnexpectedIsInvalidState ==
    /\ last.endpoint # "" /\ last.before = Start /\ ~IsSome(ParseCommand(last.msg.text)) =>
           /\ last.endpoint = "invalid_state"
           /\ last.sent =
                  <<Reply("Unable to handle the message. Type /help to see the usage.")>>
           /\ Dialogue(last.msg.chat) = last.before
           /\ db = last.db
    /\ last.endpoint = "invalid_state" =>
           last.before = Start /\ ~IsSome(ParseCommand(last.msg.text))

\* C22, witness: a text that is no command was sent in Start, after a group
\* was created, and answered.
C22_Witness ==
    /\ last.endpoint = "invalid_state"
    /\ last.msg.text = Some(TextTrip)
    /\ last.db.group # <<>>
    /\ last.sent # <<>>

\* the state of the session of the last message, after it
After == Dialogue(last.msg.chat)

\* C23: an expense row is written only by a note sent in ReceiveNote{g, a},
\* and is the row of g, a, that note and the handle of its sender, after
\* which the session is in Start; ReceiveNote{g, a} is entered only from
\* RecieveAmountSpent{g} by the positive decimal a, and RecieveAmountSpent{g}
\* only from ReceiveGroupIdForExpense by the id g of an existing group; so
\* every expense has a positive amount and the id of an existing group.
C23_ExpenseOnlyByNote ==
    /\ db.expense # last.db.expense =>
           /\ last.endpoint = "receive_note"
           /\ last.before.tag = "ReceiveNote"
           /\ IsSome(last.msg.text)
           /\ LastAuthor.ok
           /\ db.expense =
                  Append(last.db.expense,
                         [id |-> Len(last.db.expense) + 1,
                          username |-> LastAuthor.value,
                          group_id |-> last.before.group_id,
                          amount |-> last.before.amount,
                          note |-> LastText])
           /\ After = Start
    /\ last.endpoint # "" /\ After.tag = "ReceiveNote" =>
           \/ last.before = After
           \/ /\ last.before.tag = "RecieveAmountSpent"
              /\ After.group_id = last.before.group_id
              /\ After.amount = Unwrap(ParseDecimal(LastText))
              /\ After.amount > 0
    /\ last.endpoint # "" /\ After.tag = "RecieveAmountSpent" =>
           \/ last.before = After
           \/ /\ last.before.tag = "ReceiveGroupIdForExpense"
              /\ After.group_id = ListedGroup
              /\ IsSome(get_group_by_id(last.db, After.group_id))
    /\ \A i \in 1..Len(db.expense) :
           /\ db.expense[i].amount > 0
           /\ IsSome(get_group_by_id(db, db.expense[i].group_id))

\* C23, witness: a note sent in ReceiveNote has recorded an expense.
C23_Witness ==
    /\ last.endpoint = "receive_note"
    /\ db.expense # last.db.expense
    /\ After = Start

\* C24: a message handled in ReceiveGroupIdForExpense writes nothing; it
\* moves the session to RecieveAmountSpent{g} only when its text is an
\* integer g and a group g exists, and then does so whoever sent it, unless
\* a collaborator failed; when no group g exists the session stays.
C24_GroupIdForExpense ==
    last.endpoint = "receive_group_id_for_expense" =>
        /\ db = last.db
        /\ After.tag = "RecieveAmountSpent" =>
               /\ IsSome(last.msg.text)
               /\ IsSome(ParseI64(LastText))
               /\ IsSome(get_group_by_id(last.db, ListedGroup))
               /\ After = RecieveAmountSpent(ListedGroup)
        /\ After.tag # "RecieveAmountSpent" => After = ReceiveGroupIdForExpense
        /\ IsSome(last.msg.text) /\ IsSome(ParseI64(LastText)) =>
               /\ IsSome(get_group_by_id(last.db, ListedGroup))
                      /\ last.result.err \notin StoreErrors \cup IdentityErrors =>
                      After = RecieveAmountSpent(ListedGroup)
               /\ ~IsSome(get_group_by_id(last.db, ListedGroup)) =>
                      After = ReceiveGroupIdForExpense

\* C24, witness: the id of an existing group, sent by a user who is no
\* member of it, has moved the session to RecieveAmountSpent.
C24_Witness ==
    /\ last.endpoint = "receive_group_id_for_expense"
    /\ After.tag = "RecieveAmountSpent"
    /\ LastAuthor.ok
    /\ [username |-> LastAuthor.value, group_id |-> After.group_id]
           \notin last.db.user_group

\* the sender of the last message belongs to no group
LastInNoGroup ==
    ~LastAuthor.ok \/ get_user_groups(last.db, LastAuthor.value) = <<>>

\* C29: in Start, /addmembertogroup and /addexpense of a caller in no group
\* leave the session in Start; /listexpensesingroup, when no collaborator
\* fails, moves it to ReceiveGroupIdForExpensesList whether the caller is in
\* a group or not; /help and /listmygroups leave it in Start.
C29_EntryCommands ==
    /\ last.endpoint \in {"add_member_to_group", "add_expense"} /\ LastInNoGroup =>
           After = Start
    /\ last.endpoint = "list_expenses_in_group" /\ last.result.ok =>
           After = ReceiveGroupIdForExpensesList
    /\ last.endpoint \in {"help", "list_my_groups"} => After = Start

\* C29, witness: /listexpensesingroup of a caller in no group has moved
\* the session to ReceiveGroupIdForExpensesList.
C29_Witness ==
    /\ last.endpoint = "list_expenses_in_group"
    /\ LastAuthor.ok
    /\ LastInNoGroup
    /\ After = ReceiveGroupIdForExpensesList

\* C25: an update that calls add_user_to_group returns Ok; when the user row
\* of the handle exists already the set of users is left as it was, and
\* when the (user, group) pair is a member already the set of users and the
\* set of memberships are left as they were; no other membership is
\* written or removed.
C25_AddMembershipIdempotent ==
    "add_user_to_group" \in Range(last.calls) =>
        /\ last.result.ok
        /\ AddedTo.username \in last.db.user => db.user = last.db.user
        /\ AddedTo \in last.db.user_group =>
               db.user = last.db.user /\ db.user_group = last.db.user_group
        /\ last.db.user_group \subseteq db.user_group
        /\ db.user_group \subseteq last.db.user_group \cup {AddedTo}

\* C25, witness: a handle was added to a group it is a member of already.
C25_Witness ==
    /\ last.endpoint = "receive_user_name"
    /\ "add_user_to_group" \in Range(last.calls)
    /\ AddedTo \in last.db.user_group
    /\ After = Start

\* what the debtor at index i of the sorted list still owes, and what the
\* creditor at index j is still owed, when the k-th transfer is chosen
DebtorLeft(k, i) ==
    Calc.debitors[i].debt
    - SumSeq([n \in 1..(k - 1) |->
                 IF Transfers[n].debtor = Calc.debitors[i].username
                 THEN Transfers[n].amount ELSE 0])
CreditorLeft(k, j) ==
    Calc.creditors[j].debt
    - SumSeq([n \in 1..(k - 1) |->
                 IF Transfers[n].creditor = Calc.creditors[j].username
                 THEN Transfers[n].amount ELSE 0])

\* the k-th transfer is between the debtor at index i and the creditor at
\* index j of the sorted lists
TransferBetween(k, i, j) ==
    /\ Calc.debitors[i].username = Transfers[k].debtor
    /\ Calc.creditors[j].username = Transfers[k].creditor

\* the list is in descending order of debt
SortedDesc(list) ==
    \A a, b \in 1..Len(list) : a < b => list[a].debt >= list[b].debt

\* C26 (as amended): the two lists are sorted once, larger balances first;
\* every transfer is between the first debtor and the first creditor, in
\* the order of these lists, that are not fully matched yet (so a party
\* matched in part is chosen again, whatever the others still have), and
\* its amount is the minimum of what the two have left.
C26_FirstUnmatchedOfSortedLists ==
    Reported =>
        /\ SortedDesc(Calc.debitors)
        /\ SortedDesc(Calc.creditors)
        /\ \A k \in 1..Len(Transfers) :
               \E i \in 1..Len(Calc.debitors), j \in 1..Len(Calc.creditors) :
                   /\ TransferBetween(k, i, j)
                   /\ DebtorLeft(k, i) > 0
                   /\ \A i2 \in 1..(i - 1) : DebtorLeft(k, i2) = 0
                   /\ CreditorLeft(k, j) > 0
                   /\ \A j2 \in 1..(j - 1) : CreditorLeft(k, j2) = 0
                   /\ Transfers[k].amount = Min(DebtorLeft(k, i), CreditorLeft(k, j))

\* C26, witness: a transfer went to a creditor, or came from a debtor,
\* matched in part before, who had less left than another party of the
\* same list.
C26_Witness ==
    /\ Reported
    /\ \E k \in 1..Len(Transfers) :
           \E i \in 1..Len(Calc.debitors), j \in 1..Len(Calc.creditors) :
               /\ TransferBetween(k, i, j)
               /\ \/ \E i2 \in 1..Len(Calc.debitors) : DebtorLeft(k, i2) > DebtorLeft(k, i)
                  \/ \E j2 \in 1..Len(Calc.creditors) : CreditorLeft(k, j2) > CreditorLeft(k, j)

\* C26 (as claimed): every transfer is between the debtor and the creditor
\* that have the most left of all debtors, and of all creditors, not fully
\* matched yet, and its amount is the minimum of what the two have left.
C26_LargestRemainingAsClaimed ==
    Reported =>
        \A k \in 1..Len(Transfers) :
            \E i \in 1..Len(Calc.debitors), j \in 1..Len(Calc.creditors) :
                /\ TransferBetween(k, i, j)
                /\ DebtorLeft(k, i) > 0
                /\ \A i2 \in 1..Len(Calc.debitors) : DebtorLeft(k, i2) <= DebtorLeft(k, i)
                /\ CreditorLeft(k, j) > 0
                /\ \A j2 \in 1..Len(Calc.creditors) : CreditorLeft(k, j2) <= CreditorLeft(k, j)
                /\ Transfers[k].amount = Min(DebtorLeft(k, i), CreditorLeft(k, j))

\* C27: every transfer leaves its debtor or its creditor fully matched, so
\* a settlement with debtors and creditors has at most (debtors +
\* creditors - 1) transfers, and one with no debtor or no creditor has none.
C27_TransfersBounded ==
    Reported =>
        /\ \A k \in 1..Len(Transfers) :
               \E i \in 1..Len(Calc.debitors), j \in 1..Len(Calc.creditors) :
                   /\ TransferBetween(k, i, j)
                   /\ DebtorLeft(k + 1, i) = 0 \/ CreditorLeft(k + 1, j) = 0
        /\ IF Calc.debitors # <<>> /\ Calc.creditors # <<>>
           THEN Len(Transfers) <= Len(Calc.debitors) + Len(Calc.creditors) - 1
           ELSE Len(Transfers) = 0

\* C27, witness: two debtors and two creditors were settled in three
\* transfers.
C27_Witness ==
    /\ Reported
    /\ Len(Calc.debitors) = 2
    /\ Len(Calc.creditors) = 2
    /\ Len(Transfers) = 3

\* the balance (spent minus mean) of a handle in the settlement
BalanceOf(u) ==
    LET i == CHOOSE n \in 1..Len(Calc.user_debt) : Calc.user_debt[n].username = u
    IN  Calc.user_debt[i].debt

OtherChatsKept ==
    /\ \A c \in Chats : c # last'.msg.chat => storage'[c] = storage[c]
    /\ ~IsSome(storage[last'.msg.chat]) => last'.before = Start

\* C30: the sessions are isolated per chat id: a chat with no session yet
\* is handled in Start, and handling a message of one chat never changes
\* the state, or the group id and amount it carries, of another chat.
C30_SessionsIsolated == [][OtherChatsKept]_vars

\* C30, witness: a message of chat 2 was handled while chat 1 was in a state
\* that carries a group id and an amount, and the two chats are in
\* different states, in a store that both wrote to.
C30_Witness ==
    /\ last.msg.chat = 2
    /\ last.endpoint = "receive_group_id_for_add_member"
    /\ Dialogue(1).tag = "ReceiveNote"
    /\ Dialogue(2).tag = "ReceiveUsername"

==============================================================================
